---------------------------- MODULE Spec2Model ----------------------------
(***************************************************************************)
(* Verification model of the per-account state container of wey            *)
(* (class Account) and of its chat view (class ChatBox).                   *)
(*                                                                         *)
(* Strings whose characters the code inspects (user names, search queries) *)
(* are sequences of one-character strings, so that name[0], toLowerCase()  *)
(* and indexOf() are computed and not assumed.  Positions that the code    *)
(* returns (exactIndex, indexOf) keep JavaScript's 0-based numbering;      *)
(* null and -1 are written Null and NotFound.                              *)
(***************************************************************************)
EXTENDS Integers, Sequences, FiniteSets, TLC

(* ------------------------------ bounds -------------------------------- *)
\* number of handlers added to Account.onUpdateReadState
MaxSubscribers == 2
\* number of loadChannel calls suspended in readMessages at one time
MaxLoads == 2
\* number of messages the message lists deliver
MaxMessages == 2
\* number of sendMessage calls whose promise is not settled yet
MaxSends == 2
\* total number of ids held by all buckets of userNamesMap
MaxIndex == 6
\* length of Account.channels and of Account.dms
MaxChannels == 2
MaxDms == 2
\* largest mention count of one channel or DM
MaxMentions == 2

(* ------------------------- program constants --------------------------- *)
MENTION_SEARCH_LIMIT == 5

\* JavaScript null for exactIndex, and the -1 of Array.prototype.indexOf
Null == 0 - 1
NotFound == 0 - 1

VARIABLES
  users,         \* Account.users: id -> user record [id, name]
  userNamesMap,  \* Account.userNamesMap: lowercase first letter -> sequence of ids
  channels,      \* Account.channels: sequence of [isRead, isMuted, mentions]
  dms,           \* Account.dms: sequence of [isRead, isMuted, mentions]
  isRead,        \* Account.isRead
  mentions,      \* Account.mentions
  signals,       \* the dispatches made by the last call, in order
  readStateSeen, \* the payload of the latest onUpdateReadState dispatch of an
                 \* earlier or of the last call, as <<payload>>; <<>> before the first
  call,          \* the method call made last, with its arguments
  ret,           \* what that call returned
  status,        \* Account.status
  subscribers,   \* the handlers added to Account.onUpdateReadState, in
                 \* subscription order
  trace,         \* the steps of the last setReadState / updateReadState call and
                 \* of the calls its subscribers made, in execution order
  messageList,   \* ChatBox.messageList: the message list shown, or NoList
  subscription,  \* ChatBox.subscription: the list whose signals are attached
  messagesLoaded,   \* ChatBox.messagesLoaded
  pendingMessages,  \* ChatBox.pendingMessages
  isSendingReply,   \* ChatBox.isSendingReply
  isDisplaying,     \* ChatBox.isDisplaying
  replyEnabled,     \* whether ChatBox.replyEntry is enabled
  browser,       \* ChatBox.browser: the page loaded and whether it has yet to
                 \* call the `ready` binding
  rendered,      \* the messages handed to window.addMessage, with the page shown
  loads,         \* the loadChannel calls suspended in readMessages
  delivered,     \* number of messages the message lists have delivered
  replyText,     \* the text of ChatBox.replyEntry
  sends,         \* the sendMessage calls whose promise is not settled yet
  menu           \* the items of the mention menu that is popped up

directoryVars == <<users, userNamesMap>>
aggregateVars == <<channels, dms, isRead, mentions, signals, readStateSeen>>
subscriberVars == <<subscribers, trace>>
chatBoxVars == <<messageList, subscription, messagesLoaded, pendingMessages,
                 isSendingReply, isDisplaying, replyEnabled, browser, rendered,
                 loads, delivered, replyText, sends, menu>>
replyVars == <<replyText, sends, menu>>
restVars == <<status, subscriberVars, chatBoxVars>>

vars == <<directoryVars, aggregateVars, call, ret, restVars>>

(* ------------------------------ strings -------------------------------- *)
Upper == <<"A","B","C","D","E","F","G","H","I","J","K","L","M",
           "N","O","P","Q","R","S","T","U","V","W","X","Y","Z">>
Lower == <<"a","b","c","d","e","f","g","h","i","j","k","l","m",
           "n","o","p","q","r","s","t","u","v","w","x","y","z">>

\* String.prototype.toLowerCase on one character
CharToLowerCase(c) ==
  IF \E i \in 1..Len(Upper) : Upper[i] = c
    THEN Lower[CHOOSE i \in 1..Len(Upper) : Upper[i] = c]
    ELSE c

\* String.prototype.toLowerCase
ToLowerCase(s) == [i \in 1..Len(s) |-> CharToLowerCase(s[i])]

\* haystack.indexOf(needle) === 0
StartsWith(haystack, needle) ==
  /\ Len(needle) <= Len(haystack)
  /\ \A i \in 1..Len(needle) : haystack[i] = needle[i]

\* Array.prototype.indexOf: 0-based position of the first x in seq, or -1
IndexOf(seq, x) ==
  IF \E i \in 1..Len(seq) : seq[i] = x
    THEN (CHOOSE i \in 1..Len(seq) : seq[i] = x /\ \A j \in 1..(i-1) : seq[j] # x) - 1
    ELSE NotFound

\* Array.prototype.splice(index, 1): seq without the element at 0-based index
Splice(seq, index) ==
  [i \in 1..(Len(seq) - 1) |-> IF i <= index THEN seq[i] ELSE seq[i + 1]]

(* ------------------------------ inputs --------------------------------- *)
Alice     == <<"A","l","i","c","e">>
Alex      == <<"A","l","e","x">>
Alexander == <<"A","l","e","x","a","n","d","e","r">>
Bob       == <<"B","o","b">>
Robert    == <<"R","o","b","e","r","t">>
Empty     == <<>>

\* the user records handed to saveUser: three users whose names share the
\* prefix "Al", one of them renamed within its bucket, and one user renamed
\* across buckets or given the empty name
NewUsers ==
  { [id |-> 1, name |-> Alice],
    [id |-> 2, name |-> Alex],
    [id |-> 3, name |-> Alexander], [id |-> 3, name |-> Alex],
    [id |-> 4, name |-> Bob], [id |-> 4, name |-> Robert],
    [id |-> 4, name |-> Empty] }
Queries == {Empty, <<"a","l","e">>, <<"a","l","e","x">>, <<"A","L","E","X">>,
            <<"b">>, <<"z">>}

\* six users whose names start with "Alex", the one named exactly "Alex" last
Alexa  == <<"A","l","e","x","a">>
Alexei == <<"A","l","e","x","e","i">>
Alexis == <<"A","l","e","x","i","s">>
Alexia == <<"A","l","e","x","i","a">>
CompletionUsers ==
  { [id |-> 1, name |-> Alexander], [id |-> 2, name |-> Alexa],
    [id |-> 3, name |-> Alexei], [id |-> 4, name |-> Alexis],
    [id |-> 5, name |-> Alexia], [id |-> 6, name |-> Alex] }

\* the texts of the reply entry after Tab has been pressed in it
MentionTexts ==
  { <<"@","a","l","e","x","\t">>, <<"@","A","l","e","x","a","\t">>,
    <<"h","i"," ","@","A","L","E","X","I","\t">>, <<"@","b","\t">>,
    <<"h","i"," ","@","a","l","e","x","i","a","\t">>,
    <<"a","@","a","l","e","x","\t">> }
Keys == {"Tab", "Enter"}

(* ----------------------------- constructor ----------------------------- *)
\* ChatBox.messageList === null
NoList == "null"

\* the page of a browser that has loaded nothing yet
NoPage == "about:blank"

\* the state `new ChatBox(mainWindow)` leaves, chat-box.js lines 65-101
ChatBoxConstructor ==
  /\ messageList = NoList
  /\ subscription = NoList
  /\ messagesLoaded = FALSE
  /\ isSendingReply = FALSE
  /\ isDisplaying = FALSE
  /\ pendingMessages = <<>>
  /\ replyEnabled = FALSE
  /\ browser = [page |-> NoPage, readyDue |-> FALSE]
  /\ rendered = <<>>
  /\ loads = <<>>
  /\ delivered = 0
  /\ replyText = <<>>
  /\ sends = <<>>
  /\ menu = <<>>

\* the state `new Account(service, config)` leaves, lines 14-32, in a program
\* whose chat box has been constructed as well
Constructor ==
  /\ ChatBoxConstructor
  /\ status = "connecting"
  /\ subscribers = <<>>
  /\ trace = <<>>
  /\ channels = <<>>
  /\ dms = <<>>
  /\ users = <<>>
  /\ userNamesMap = <<>>
  /\ isRead = TRUE
  /\ mentions = 0
  /\ signals = <<>>
  /\ readStateSeen = <<>>
  /\ call = [op |-> "constructor"]
  /\ ret = [threw |-> FALSE]

(* --------------------------- user directory ---------------------------- *)
Buckets == DOMAIN userNamesMap

RECURSIVE SumLen(_, _)
SumLen(map, keys) ==
  IF keys = {} THEN 0
  ELSE LET k == CHOOSE k \in keys : TRUE
       IN Len(map[k]) + SumLen(map, keys \ {k})

IndexSize(map) == SumLen(map, DOMAIN map)

\* saveUser that pushes the new entry and leaves the old one in its bucket
SavedNamesMapKeepingOld(newUser) ==
  LET newFirstLetter == CharToLowerCase(newUser.name[1])
      created ==
        IF newFirstLetter \notin DOMAIN userNamesMap
          THEN userNamesMap @@ (newFirstLetter :> <<>>)
          ELSE userNamesMap
  IN [created EXCEPT ![newFirstLetter] = Append(@, newUser.id)]

\* userNamesMap after saveUser(newUser), lines 102-119
SavedNamesMap(newUser) ==
  LET hasOld == newUser.id \in DOMAIN users
      newFirstLetter == CharToLowerCase(newUser.name[1])
      removed ==
        IF hasOld /\ users[newUser.id].name # newUser.name
          THEN LET oldUser == users[newUser.id]
                   oldFirstLetter == CharToLowerCase(oldUser.name[1])
                   index == IndexOf(userNamesMap[oldFirstLetter], oldUser.id)
               IN IF index > -1
                    THEN [userNamesMap EXCEPT ![oldFirstLetter] = Splice(@, index)]
                    ELSE userNamesMap
          ELSE userNamesMap
      created ==
        IF newFirstLetter \notin DOMAIN removed
          THEN removed @@ (newFirstLetter :> <<>>)
          ELSE removed
  IN [created EXCEPT ![newFirstLetter] = Append(@, newUser.id)]

\* saveUser(newUser) with a name that has a first character
SaveUser(newUser) ==
  /\ newUser.name # Empty
  /\ IndexSize(SavedNamesMap(newUser)) <= MaxIndex
  /\ userNamesMap' = SavedNamesMap(newUser)
  /\ users' = IF newUser.id \in DOMAIN users
                THEN [users EXCEPT ![newUser.id] = newUser]
                ELSE users @@ (newUser.id :> newUser)
  /\ call' = [op |-> "saveUser", user |-> newUser]
  /\ ret' = [threw |-> FALSE, user |-> newUser]
  /\ UNCHANGED <<aggregateVars, restVars>>

\* saveUser throwing only after the entry of the old name has been removed
SaveUserThrowsLate(newUser) ==
  /\ newUser.name = Empty
  /\ call' = [op |-> "saveUser", user |-> newUser]
  /\ ret' = [threw |-> TRUE]
  /\ users' = users
  /\ userNamesMap' =
       IF newUser.id \in DOMAIN users /\ users[newUser.id].name # Empty
         THEN LET oldUser == users[newUser.id]
                  oldFirstLetter == CharToLowerCase(oldUser.name[1])
                  index == IndexOf(userNamesMap[oldFirstLetter], oldUser.id)
              IN IF index > -1
                   THEN [userNamesMap EXCEPT ![oldFirstLetter] = Splice(@, index)]
                   ELSE userNamesMap
         ELSE userNamesMap
  /\ UNCHANGED <<aggregateVars, restVars>>

\* saveUser(newUser) with the empty name: newUser.name[0] is undefined and
\* undefined.toLowerCase() throws a TypeError on line 103
SaveUserThrows(newUser) ==
  /\ newUser.name = Empty
  /\ call' = [op |-> "saveUser", user |-> newUser]
  /\ ret' = [threw |-> TRUE]
  /\ UNCHANGED <<users, userNamesMap>>
  /\ UNCHANGED <<aggregateVars, restVars>>

\* the loop without its break at MENTION_SEARCH_LIMIT
RECURSIVE ScanWithoutLimit(_, _, _, _)
ScanWithoutLimit(letterUsers, lowerName, i, acc) ==
  IF i > Len(letterUsers) THEN acc
  ELSE LET user == users[letterUsers[i]]
           userLowerName == ToLowerCase(user.name)
           isExact == userLowerName = lowerName
       IN IF isExact \/ StartsWith(userLowerName, lowerName)
            THEN LET pushed == Append(acc.users, user)
                 IN ScanWithoutLimit(letterUsers, lowerName, i + 1,
                      [users |-> pushed,
                       exactIndex |-> IF isExact THEN Len(pushed) - 1
                                                 ELSE acc.exactIndex])
            ELSE ScanWithoutLimit(letterUsers, lowerName, i + 1, acc)

\* the loop with exactIndex taken from users.length instead of users.length - 1
RECURSIVE ScanExactOffByOne(_, _, _, _)
ScanExactOffByOne(letterUsers, lowerName, i, acc) ==
  IF i > Len(letterUsers) THEN acc
  ELSE LET user == users[letterUsers[i]]
           userLowerName == ToLowerCase(user.name)
           isExact == userLowerName = lowerName
       IN IF isExact \/ StartsWith(userLowerName, lowerName)
            THEN LET pushed == Append(acc.users, user)
                     next == [users |-> pushed,
                              exactIndex |-> IF isExact THEN Len(pushed)
                                                        ELSE acc.exactIndex]
                 IN IF Len(pushed) = MENTION_SEARCH_LIMIT
                      THEN next
                      ELSE ScanExactOffByOne(letterUsers, lowerName, i + 1, next)
            ELSE ScanExactOffByOne(letterUsers, lowerName, i + 1, acc)

\* the loop of findUsersByName over one bucket: the state is the pair
\* (users, exactIndex) and the loop breaks at MENTION_SEARCH_LIMIT matches
RECURSIVE ScanLetterUsers(_, _, _, _)
ScanLetterUsers(letterUsers, lowerName, i, acc) ==
  IF i > Len(letterUsers) THEN acc
  ELSE LET user == users[letterUsers[i]]
           userLowerName == ToLowerCase(user.name)
           isExact == userLowerName = lowerName
       IN IF isExact \/ StartsWith(userLowerName, lowerName)
            THEN LET pushed == Append(acc.users, user)
                     next == [users |-> pushed,
                              exactIndex |-> IF isExact THEN Len(pushed) - 1
                                                        ELSE acc.exactIndex]
                 IN IF Len(pushed) = MENTION_SEARCH_LIMIT
                      THEN next
                      ELSE ScanLetterUsers(letterUsers, lowerName, i + 1, next)
            ELSE ScanLetterUsers(letterUsers, lowerName, i + 1, acc)

\* the value findUsersByName(name) returns
FindUsersByNameResult(name) ==
  LET lowerName == ToLowerCase(name)
      none == [users |-> <<>>, exactIndex |-> Null]
  IN IF lowerName = Empty THEN none
     ELSE IF lowerName[1] \notin Buckets THEN none
     ELSE ScanLetterUsers(userNamesMap[lowerName[1]], lowerName, 1, none)

FindUsersByName(name) ==
  /\ call' = [op |-> "findUsersByName", name |-> name]
  /\ ret' = [threw |-> FALSE, found |-> FindUsersByNameResult(name)]
  /\ UNCHANGED <<users, userNamesMap>>
  /\ UNCHANGED <<aggregateVars, restVars>>

\* saveUser for a user the directory does not hold yet
SaveNewUser(newUser) ==
  /\ newUser.id \notin DOMAIN users
  /\ SaveUser(newUser)

(* ------------------------ read state and mentions ---------------------- *)
\* the callback without its isMuted test
ComputeReadIgnoringMuted(r, c) == IF c.isRead THEN r ELSE FALSE

\* the callback of computeReadState, line 96
ComputeRead(r, c) == IF c.isRead \/ c.isMuted THEN r ELSE FALSE

\* Array.prototype.reduce(compute, r) with that callback, left to right
RECURSIVE ReduceRead(_, _)
ReduceRead(entities, r) ==
  IF entities = <<>> THEN r
  ELSE ReduceRead(Tail(entities), ComputeRead(r, Head(entities)))

\* the fold over channels alone
ComputeReadStateOfChannels == ReduceRead(channels, TRUE)

\* the fold seeded with the stored isRead
ComputeReadStateSeeded == ReduceRead(channels, ReduceRead(dms, isRead))

\* computeReadState(), line 97
ComputeReadState == ReduceRead(channels, ReduceRead(dms, TRUE))

\* the callback of updateMentions, line 138
ComputeMentions(m, c) == m + c.mentions

RECURSIVE ReduceMentions(_, _)
ReduceMentions(entities, m) ==
  IF entities = <<>> THEN m
  ELSE ReduceMentions(Tail(entities), ComputeMentions(m, Head(entities)))

\* the sum over channels alone
RecomputedMentionsOfChannels == ReduceMentions(channels, 0)

\* the local `mentions` of updateMentions, line 139
RecomputedMentions == ReduceMentions(channels, ReduceMentions(dms, 0))

\* accountManager.computeReadState() of a registry that holds this account
\* alone: the aggregate over all accounts is this account's isRead
AccountManagerComputeReadState(accountIsRead) == accountIsRead

Dispatch(signal, args) == [signal |-> signal, args |-> args]

\* setReadState without the comparison with the current value
SetReadStateAlways(read) ==
  /\ isRead' = read
  /\ signals' = << Dispatch("onUpdateReadState", <<read>>),
                   Dispatch("accountManager.onUpdateReadState",
                            <<AccountManagerComputeReadState(read)>>) >>
  /\ readStateSeen' = <<read>>

\* the body of setReadState(read), lines 126-130
SetReadStateBody(read) ==
  IF isRead # read
    THEN /\ isRead' = read
         /\ signals' = << Dispatch("onUpdateReadState", <<read>>),
                          Dispatch("accountManager.onUpdateReadState",
                                   <<AccountManagerComputeReadState(read)>>) >>
         /\ readStateSeen' = <<read>>
    ELSE /\ signals' = <<>>
         /\ UNCHANGED <<isRead, readStateSeen>>

\* setReadState(read)
SetReadState(read) ==
  /\ SetReadStateBody(read)
  /\ call' = [op |-> "setReadState", read |-> read]
  /\ ret' = [threw |-> FALSE]
  /\ UNCHANGED <<channels, dms, mentions, directoryVars, restVars>>

\* updateReadState()
UpdateReadState ==
  /\ SetReadStateBody(ComputeReadState)
  /\ call' = [op |-> "updateReadState"]
  /\ ret' = [threw |-> FALSE]
  /\ UNCHANGED <<channels, dms, mentions, directoryVars, restVars>>

\* a call of computeReadState() by itself
ComputeReadStateCall ==
  /\ call' = [op |-> "computeReadState"]
  /\ ret' = [threw |-> FALSE, value |-> ComputeReadState]
  /\ signals' = <<>>
  /\ UNCHANGED <<channels, dms, isRead, mentions, readStateSeen, directoryVars, restVars>>

\* updateMentions without the comparison with the stored count
UpdateMentionsAlways ==
  /\ mentions' = RecomputedMentions
  /\ signals' = << Dispatch("onUpdateMentions", <<>>),
                   Dispatch("accountManager.updateMentions", <<>>) >>

\* the body of updateMentions(), lines 138-144
UpdateMentionsBody ==
  IF RecomputedMentions # mentions
    THEN /\ mentions' = RecomputedMentions
         /\ signals' = << Dispatch("onUpdateMentions", <<>>),
                          Dispatch("accountManager.updateMentions", <<>>) >>
    ELSE /\ signals' = <<>>
         /\ UNCHANGED mentions

\* updateMentions()
UpdateMentions ==
  /\ UpdateMentionsBody
  /\ call' = [op |-> "updateMentions"]
  /\ ret' = [threw |-> FALSE]
  /\ UNCHANGED <<channels, dms, isRead, readStateSeen, directoryVars, restVars>>

(* ------------------- subscribers of onUpdateReadState ------------------ *)
\* What a handler added to Account.onUpdateReadState does with the payload it
\* is called with: it returns, it throws, or it calls setReadState(true) on
\* the same account before it returns. The handlers are code outside the
\* Account class; mini-signals calls them synchronously, in the order they
\* were added, and catches nothing.
Passive    == [p \in BOOLEAN |-> "return"]
MarkRead   == [p \in BOOLEAN |-> IF p THEN "return" ELSE "setReadState(true)"]
FailUnread == [p \in BOOLEAN |-> IF p THEN "return" ELSE "throw"]
FailAlways == [p \in BOOLEAN |-> "throw"]

CooperativeHandlers == {Passive, MarkRead}
Handlers == {Passive, MarkRead, FailUnread, FailAlways}

\* one step of a call: the assignment to isRead, the call of a handler with
\* the value of isRead it finds, a handler throwing, the registry's dispatch
Step(kind, subscriber, value, found) ==
  [kind |-> kind, subscriber |-> subscriber, value |-> value, isRead |-> found]

\* onUpdateReadState.add(handler)
Subscribe(handler) ==
  /\ Len(subscribers) < MaxSubscribers
  /\ subscribers' = Append(subscribers, handler)
  /\ trace' = <<>>
  /\ call' = [op |-> "subscribe"]
  /\ ret' = [threw |-> FALSE]
  /\ signals' = <<>>
  /\ UNCHANGED <<channels, dms, isRead, mentions, readStateSeen>>
  /\ UNCHANGED <<directoryVars, status, chatBoxVars>>

RECURSIVE SetReadStateRun(_, _)
RECURSIVE DispatchRun(_, _, _)

\* this.onUpdateReadState.dispatch(payload) from handler k on, line 128: each
\* handler runs to its end before the next one is called, and an exception
\* of a handler ends the dispatch and the calls around it
DispatchRun(payload, k, run) ==
  IF k > Len(subscribers) THEN run
  ELSE LET called == [run EXCEPT !.trace =
                        Append(@, Step("handler", k, payload, run.isRead))]
           reaction == subscribers[k][payload]
       IN IF reaction = "throw"
            THEN [called EXCEPT !.threw = TRUE,
                                !.trace = Append(@, Step("throw", k, payload,
                                                         run.isRead))]
          ELSE IF reaction = "setReadState(true)"
            THEN LET inner == SetReadStateRun(TRUE, called)
                 IN IF inner.threw THEN inner
                    ELSE DispatchRun(payload, k + 1, inner)
          ELSE DispatchRun(payload, k + 1, called)

\* setReadState(read), lines 125-131, with the handlers it calls
SetReadStateRun(read, run) ==
  IF run.isRead = read THEN run
  ELSE LET assigned == [run EXCEPT !.isRead = read,
                          !.trace = Append(@, Step("commit", 0, read, read))]
           dispatched == DispatchRun(read, 1, assigned)
       IN IF dispatched.threw THEN dispatched
          ELSE [dispatched EXCEPT !.trace =
                  Append(@, Step("registry", 0,
                                 AccountManagerComputeReadState(dispatched.isRead),
                                 dispatched.isRead))]

\* the dispatches among the steps of a call: one of the account's signal for
\* each assignment, one of the registry's signal for each registry step
RECURSIVE DispatchesOf(_)
DispatchesOf(steps) ==
  IF steps = <<>> THEN <<>>
  ELSE LET rest == DispatchesOf(Tail(steps))
       IN IF Head(steps).kind = "commit"
            THEN <<Dispatch("onUpdateReadState", <<Head(steps).value>>)>> \o rest
          ELSE IF Head(steps).kind = "registry"
            THEN <<Dispatch("accountManager.onUpdateReadState",
                            <<Head(steps).value>>)>> \o rest
          ELSE rest

\* a call of setReadState(read) from outside, on an account with subscribers
SetReadStateCalled(op, read) ==
  LET run == SetReadStateRun(read, [isRead |-> isRead, trace |-> <<>>,
                                    threw |-> FALSE])
  IN /\ isRead' = run.isRead
     /\ trace' = run.trace
     /\ signals' = DispatchesOf(run.trace)
     /\ readStateSeen' = IF run.trace = <<>> THEN readStateSeen
                         ELSE <<run.isRead>>
     /\ call' = [op |-> op, read |-> read, before |-> isRead]
     /\ ret' = [threw |-> run.threw]
     /\ UNCHANGED <<channels, dms, mentions, subscribers>>
     /\ UNCHANGED <<directoryVars, status, chatBoxVars>>

SetReadStateWithSubscribers(read) == SetReadStateCalled("setReadState", read)

\* updateReadState(), lines 133-135, on an account with subscribers
UpdateReadStateWithSubscribers ==
  SetReadStateCalled("updateReadState", ComputeReadState)

(* ------------------------------ chat box ------------------------------ *)
\* the message lists a chat box is asked to show
MessageLists == {"A", "B"}

\* browser.getURL() after browser.loadURL(loadingUrl), chat-box.js lines 52, 154
LoadingPage == "loading"

\* browser.loadHTML(html, url) of the page rendered for a message list, line
\* 185: the page calls the `ready` binding once it has loaded
PageOf(list) == [page |-> list, readyDue |-> TRUE]

\* the fields unload() leaves, lines 128-146
UnloadedMessagesLoaded == IF messageList # NoList THEN FALSE ELSE messagesLoaded
UnloadedIsDisplaying == IF messageList # NoList THEN FALSE ELSE isDisplaying
UnloadedPendingMessages == IF messageList # NoList THEN <<>> ELSE pendingMessages

\* unload() called by the owner of the chat box
Unload ==
  /\ subscription' = NoList
  /\ messageList' = NoList
  /\ messagesLoaded' = UnloadedMessagesLoaded
  /\ isDisplaying' = UnloadedIsDisplaying
  /\ pendingMessages' = UnloadedPendingMessages
  /\ call' = [op |-> "unload"]
  /\ ret' = [threw |-> FALSE]
  /\ UNCHANGED <<isSendingReply, replyEnabled, browser, rendered, loads, delivered>>
  /\ UNCHANGED <<directoryVars, aggregateVars, status, subscriberVars, replyVars>>

\* setLoading(), lines 148-155, called by the owner of the chat box: nothing
\* when the loading page is shown already, else unload() and the loading page
SetLoading ==
  /\ IF browser.page = LoadingPage
       THEN UNCHANGED <<subscription, messageList, messagesLoaded, isDisplaying,
                        pendingMessages, browser>>
       ELSE /\ subscription' = NoList
            /\ messageList' = NoList
            /\ messagesLoaded' = UnloadedMessagesLoaded
            /\ isDisplaying' = UnloadedIsDisplaying
            /\ pendingMessages' = UnloadedPendingMessages
            /\ browser' = [page |-> LoadingPage, readyDue |-> FALSE]
  /\ call' = [op |-> "setLoading"]
  /\ ret' = [threw |-> FALSE]
  /\ UNCHANGED <<isSendingReply, replyEnabled, rendered, loads, delivered>>
  /\ UNCHANGED <<directoryVars, aggregateVars, status, subscriberVars, replyVars>>

\* loadChannel(messageList) up to its await, lines 157-172: unload, the
\* loading page when the messages have to be fetched, the new message list
\* and its subscription; the call is then suspended in readMessages
LoadChannel(list, messagesReady) ==
  /\ Len(loads) < MaxLoads
  /\ messagesLoaded' = UnloadedMessagesLoaded
  /\ isDisplaying' = UnloadedIsDisplaying
  /\ pendingMessages' = UnloadedPendingMessages
  /\ replyEnabled' = IF messagesReady THEN replyEnabled ELSE FALSE
  /\ browser' = IF messagesReady \/ browser.page = LoadingPage
                  THEN browser
                  ELSE [page |-> LoadingPage, readyDue |-> FALSE]
  /\ messageList' = list
  /\ subscription' = list
  /\ loads' = Append(loads, list)
  /\ call' = [op |-> "loadChannel", list |-> list]
  /\ ret' = [threw |-> FALSE]
  /\ UNCHANGED <<isSendingReply, rendered, delivered>>
  /\ UNCHANGED <<directoryVars, aggregateVars, status, subscriberVars, replyVars>>

\* loadChannel resumed when readMessages of its message list has resolved,
\* lines 172-186: messagesLoaded is reset, and the page is rendered if the
\* chat box still shows that message list
ResumeLoad(i) ==
  /\ i \in 1..Len(loads)
  /\ loads' = Splice(loads, i - 1)
  /\ messagesLoaded' = FALSE
  /\ browser' = IF loads[i] = messageList THEN PageOf(loads[i]) ELSE browser
  /\ replyText' = IF loads[i] = messageList THEN <<>> ELSE replyText
  /\ UNCHANGED <<sends, menu>>
  /\ call' = [op |-> "resumeLoad", list |-> loads[i]]
  /\ ret' = [threw |-> FALSE]
  /\ UNCHANGED <<messageList, subscription, pendingMessages, isSendingReply,
                 isDisplaying, replyEnabled, rendered, delivered>>
  /\ UNCHANGED <<directoryVars, aggregateVars, status, subscriberVars>>

\* browser.executeJavaScript(`window.addMessage(...)`) for each message, line
\* 201: the messages are added to the page the browser shows
AddedToPage(messages) ==
  [i \in 1..Len(messages) |-> [message |-> messages[i], page |-> browser.page]]

\* newMessage(message), lines 188-202, called by the onMessage signal of the
\* message list the chat box has subscribed to (threadId is never set)
NewMessage(list) ==
  /\ subscription = list
  /\ delivered < MaxMessages
  /\ delivered' = delivered + 1
  /\ LET message == [id |-> delivered + 1, list |-> list]
     IN /\ IF ~messagesLoaded
             THEN /\ pendingMessages' = Append(pendingMessages, message)
                  /\ rendered' = rendered
             ELSE /\ pendingMessages' = pendingMessages
                  /\ rendered' = IF messageList = NoList THEN rendered
                                 ELSE rendered \o AddedToPage(<<message>>)
        /\ call' = [op |-> "newMessage", message |-> message]
        /\ ret' = [threw |-> messagesLoaded /\ messageList = NoList]
  /\ UNCHANGED <<messageList, subscription, messagesLoaded, isSendingReply,
                 isDisplaying, replyEnabled, browser, loads>>
  /\ UNCHANGED <<directoryVars, aggregateVars, status, subscriberVars, replyVars>>

\* ready(), lines 216-228, called by the page the browser has loaded; without
\* a message list, this.messageList.select() or notifyRead() throws a
\* TypeError after the assignments before it
Ready(isActive) ==
  /\ browser.readyDue
  /\ browser' = [browser EXCEPT !.readyDue = FALSE]
  /\ replyEnabled' = TRUE
  /\ messagesLoaded' = TRUE
  /\ IF messageList = NoList /\ pendingMessages # <<>>
       THEN UNCHANGED <<pendingMessages, rendered, isDisplaying>>
       ELSE /\ rendered' = rendered \o AddedToPage(pendingMessages)
            /\ pendingMessages' = <<>>
            /\ isDisplaying' = IF isActive THEN TRUE ELSE isDisplaying
  /\ call' = [op |-> "ready"]
  /\ ret' = [threw |-> messageList = NoList]
  /\ UNCHANGED <<messageList, subscription, isSendingReply, loads, delivered>>
  /\ UNCHANGED <<directoryVars, aggregateVars, status, subscriberVars, replyVars>>

\* notifyDisplaying(), lines 326-331, on window focus
NotifyDisplaying ==
  /\ isDisplaying' = IF messagesLoaded /\ ~isDisplaying THEN TRUE ELSE isDisplaying
  /\ call' = [op |-> "notifyDisplaying"]
  /\ ret' = [threw |-> messagesLoaded /\ ~isDisplaying /\ messageList = NoList]
  /\ UNCHANGED <<messageList, subscription, messagesLoaded, pendingMessages,
                 isSendingReply, replyEnabled, browser, rendered, loads, delivered>>
  /\ UNCHANGED <<directoryVars, aggregateVars, status, subscriberVars, replyVars>>

\* notifyNotDisplaying(), lines 333-338, on window blur
NotifyNotDisplaying ==
  /\ isDisplaying' = FALSE
  /\ call' = [op |-> "notifyNotDisplaying"]
  /\ ret' = [threw |-> isDisplaying /\ messageList = NoList]
  /\ UNCHANGED <<messageList, subscription, messagesLoaded, pendingMessages,
                 isSendingReply, replyEnabled, browser, rendered, loads, delivered>>
  /\ UNCHANGED <<directoryVars, aggregateVars, status, subscriberVars, replyVars>>

(* ------------------------------ replies -------------------------------- *)
\* the texts the user leaves in the reply entry
ReplyTexts == { <<>>, <<" ", "\n">>, <<"h", "i">>, <<" ", "o", "k", " ">> }

\* the characters String.prototype.trim removes
WhiteSpace == {" ", "\n", "\t", "\r"}

\* message.trim(), line 353
RECURSIVE TrimStart(_)
TrimStart(text) ==
  IF text = <<>> THEN <<>>
  ELSE IF Head(text) \in WhiteSpace THEN TrimStart(Tail(text))
  ELSE text

RECURSIVE TrimEnd(_)
TrimEnd(text) ==
  IF text = <<>> THEN <<>>
  ELSE IF text[Len(text)] \in WhiteSpace
    THEN TrimEnd(SubSeq(text, 1, Len(text) - 1))
  ELSE text

Trim(text) == TrimEnd(TrimStart(text))

\* the user edits the text of the enabled reply entry; no mention menu is
\* open, since Menu.popup() returns only when the menu is closed
TypeText(text) ==
  /\ replyEnabled
  /\ menu = <<>>
  /\ text # replyText
  /\ replyText' = text
  /\ call' = [op |-> "typeText", text |-> text]
  /\ ret' = [threw |-> FALSE]
  /\ UNCHANGED <<messageList, subscription, messagesLoaded, pendingMessages,
                 isSendingReply, isDisplaying, replyEnabled, browser, rendered,
                 loads, delivered, sends>>
  /\ UNCHANGED <<directoryVars, aggregateVars, status, subscriberVars, menu>>

\* the test of line 353 without its isSendingReply part
RefusesIgnoringSend(message) ==
  Len(Trim(message)) = 0 \/ messageList = NoList

\* message.trim().length == 0 || !this.messageList || this.isSendingReply
Refuses(message) ==
  Len(Trim(message)) = 0 \/ messageList = NoList \/ isSendingReply

\* handleEnter(replyEntry), lines 349-372, up to the call of sendMessage: true
\* lets the entry insert a new line, false does not; a message that is sent
\* disables the entry and stays in flight until its promise is settled
HandleEnter(isShiftPressed) ==
  /\ call' = [op |-> "handleEnter", isShiftPressed |-> isShiftPressed,
              message |-> replyText]
  /\ IF isShiftPressed
       THEN /\ ret' = [threw |-> FALSE, value |-> TRUE]
            /\ UNCHANGED <<replyEnabled, isSendingReply, sends>>
     ELSE IF Refuses(replyText)
       THEN /\ ret' = [threw |-> FALSE, value |-> FALSE]
            /\ UNCHANGED <<replyEnabled, isSendingReply, sends>>
     ELSE /\ Len(sends) < MaxSends
          /\ replyEnabled' = FALSE
          /\ isSendingReply' = TRUE
          /\ sends' = Append(sends, [list |-> messageList, message |-> replyText])
          /\ ret' = [threw |-> FALSE, value |-> FALSE]
  /\ UNCHANGED <<messageList, subscription, messagesLoaded, pendingMessages,
                 isDisplaying, browser, rendered, loads, delivered, replyText>>
  /\ UNCHANGED <<directoryVars, aggregateVars, status, subscriberVars, menu>>

\* the promise of sendMessage fulfilled: the callback of then, lines 359-364
SendResolved(i) ==
  /\ i \in 1..Len(sends)
  /\ sends' = Splice(sends, i - 1)
  /\ replyText' = <<>>
  /\ replyEnabled' = TRUE
  /\ isSendingReply' = FALSE
  /\ call' = [op |-> "sendResolved", message |-> sends[i].message]
  /\ ret' = [threw |-> FALSE]
  /\ UNCHANGED <<messageList, subscription, messagesLoaded, pendingMessages,
                 isDisplaying, browser, rendered, loads, delivered>>
  /\ UNCHANGED <<directoryVars, aggregateVars, status, subscriberVars, menu>>

\* the promise of sendMessage rejected: the callback of catch, lines 365-370
SendRejected(i) ==
  /\ i \in 1..Len(sends)
  /\ sends' = Splice(sends, i - 1)
  /\ replyEnabled' = TRUE
  /\ isSendingReply' = FALSE
  /\ call' = [op |-> "sendRejected", message |-> sends[i].message]
  /\ ret' = [threw |-> FALSE]
  /\ UNCHANGED <<messageList, subscription, messagesLoaded, pendingMessages,
                 isDisplaying, browser, rendered, loads, delivered, replyText>>
  /\ UNCHANGED <<directoryVars, aggregateVars, status, subscriberVars, menu>>

\* the promise of some sendMessage call is settled
SendSettles == \E i \in 1..MaxSends : SendResolved(i) \/ SendRejected(i)

(* -------------------------- mention completion ------------------------- *)
\* `${userId}` for a non-negative integer id
DecimalDigits == <<"0", "1", "2", "3", "4", "5", "6", "7", "8", "9">>

RECURSIVE IdText(_)
IdText(id) ==
  IF id < 10 THEN <<DecimalDigits[id + 1]>>
  ELSE IdText(id \div 10) \o <<DecimalDigits[(id % 10) + 1]>>

\* the text `<@${userId}>`, lines 57 and 397
MentionTag(id) == <<"<", "@">> \o IdText(id) \o <<">">>

\* a 0-based position of the entry, kept within text
Within(text, at) == IF at > Len(text) THEN Len(text) ELSE at

\* replyEntry.deleteRange(from, to): the characters at the 0-based positions
\* from .. to - 1 are removed
DeleteRange(text, from, to) ==
  SubSeq(text, 1, Within(text, from)) \o SubSeq(text, Within(text, to) + 1, Len(text))

\* replyEntry.insertText(inserted) with the caret at the 0-based position at
InsertText(text, at, inserted) ==
  SubSeq(text, 1, Within(text, at)) \o inserted
    \o SubSeq(text, Within(text, at) + 1, Len(text))

\* the 1-based position of the last "@" of str, 0 without one
RECURSIVE LastAt(_)
LastAt(str) ==
  IF str = <<>> THEN 0
  ELSE IF str[Len(str)] = "@" THEN Len(str)
  ELSE LastAt(SubSeq(str, 1, Len(str) - 1))

\* match[1].substr(1) for str.match(/(?:^|\s+)(@[^@\r\n\t]+)\t$/), lines
\* 385-390: the name between the last "@", which starts str or follows white
\* space, and the tab that ends str; the empty sequence without a match
MentionName(str) ==
  LET at == LastAt(str)
      name == SubSeq(str, at + 1, Len(str) - 1)
  IN IF /\ str # <<>>
        /\ str[Len(str)] = "\t"
        /\ at > 0
        /\ (at = 1 \/ str[at - 1] \in WhiteSpace)
        /\ name # <<>>
        /\ \A i \in 1..Len(name) : name[i] \notin {"\r", "\n", "\t"}
       THEN name
       ELSE <<>>

\* users.unshift(users.splice(exactIndex, 1)[0]), line 409
MoveToFront(found) ==
  <<found.users[found.exactIndex + 1]>> \o Splice(found.users, found.exactIndex)

\* the list of users onKeyUp builds its menu from, lines 392-413
Ranked(found) ==
  IF found.exactIndex # Null THEN MoveToFront(found) ELSE found.users

\* what onKeyUp returns when it returns undefined
Unhandled == [threw |-> FALSE, handled |-> FALSE, inserted |-> Null, menu |-> <<>>]

\* onKeyUp(replyEntry, keyEvent), lines 374-421, with the selection pos..posB
\* of the entry: only a Tab behind "@name" with nothing selected is handled;
\* without a message list line 392 throws a TypeError; one match replaces
\* "@name<Tab>" by <@id>; otherwise the tab is removed, and several matches
\* pop up a menu of the ranked users
OnKeyUp(key, pos, posB) ==
  /\ menu = <<>>
  /\ pos \in 0..Len(replyText)
  /\ posB \in 0..Len(replyText)
  /\ call' = [op |-> "onKeyUp", key |-> key, pos |-> pos, posB |-> posB,
              text |-> replyText]
  /\ LET name == MentionName(SubSeq(replyText, 1, pos))
         found == FindUsersByNameResult(name)
         from == pos - Len(name) - 2
     IN IF key # "Tab" \/ pos # posB \/ pos < 1 \/ name = <<>>
          THEN /\ ret' = Unhandled
               /\ UNCHANGED <<replyText, menu>>
        ELSE IF messageList = NoList
          THEN /\ ret' = [threw |-> TRUE]
               /\ UNCHANGED <<replyText, menu>>
        ELSE IF Len(found.users) = 1
          THEN /\ replyText' = InsertText(DeleteRange(replyText, from, pos), from,
                                          MentionTag(found.users[1].id))
               /\ ret' = [threw |-> FALSE, handled |-> TRUE,
                          inserted |-> found.users[1].id, menu |-> <<>>]
               /\ UNCHANGED menu
        ELSE IF Len(found.users) = 0
          THEN /\ replyText' = DeleteRange(replyText, pos - 1, pos)
               /\ ret' = Unhandled
               /\ UNCHANGED menu
        ELSE /\ replyText' = DeleteRange(replyText, pos - 1, pos)
             /\ menu' = [i \in 1..Len(found.users) |->
                           [id |-> Ranked(found)[i].id, deleteFrom |-> from,
                            deleteTo |-> pos - 1]]
             /\ ret' = [threw |-> FALSE, handled |-> TRUE, inserted |-> Null,
                        menu |-> Ranked(found)]
  /\ UNCHANGED <<messageList, subscription, messagesLoaded, pendingMessages,
                 isSendingReply, isDisplaying, replyEnabled, browser, rendered,
                 loads, delivered, sends>>
  /\ UNCHANGED <<directoryVars, aggregateVars, status, subscriberVars>>

\* the click on item i of the menu: the callback of getMenuCallback, lines
\* 54-59, replaces "@name" by <@id>
MenuClick(i) ==
  /\ i \in 1..Len(menu)
  /\ replyText' = InsertText(DeleteRange(replyText, menu[i].deleteFrom,
                                         menu[i].deleteTo),
                             menu[i].deleteFrom, MentionTag(menu[i].id))
  /\ menu' = <<>>
  /\ call' = [op |-> "menuClick", id |-> menu[i].id]
  /\ ret' = [threw |-> FALSE]
  /\ UNCHANGED <<messageList, subscription, messagesLoaded, pendingMessages,
                 isSendingReply, isDisplaying, replyEnabled, browser, rendered,
                 loads, delivered, sends>>
  /\ UNCHANGED <<directoryVars, aggregateVars, status, subscriberVars>>

\* the menu closed without a click
MenuDismiss ==
  /\ menu # <<>>
  /\ menu' = <<>>
  /\ call' = [op |-> "menuDismiss"]
  /\ ret' = [threw |-> FALSE]
  /\ UNCHANGED <<messageList, subscription, messagesLoaded, pendingMessages,
                 isSendingReply, isDisplaying, replyEnabled, browser, rendered,
                 loads, delivered, sends, replyText>>
  /\ UNCHANGED <<directoryVars, aggregateVars, status, subscriberVars>>

(* ------------------------ connection lifecycle ------------------------- *)
LifecycleOps == {"disconnect", "reload", "getAllChannels", "join", "leave"}

\* the message of the Error the base class throws, lines 148-164
NotImplemented == "Should be implemented by subclass"

\* a lifecycle operation that records its failure before failing
LifecycleSettingError(op) ==
  /\ call' = [op |-> op]
  /\ ret' = [threw |-> TRUE, error |-> NotImplemented]
  /\ status' = "error"
  /\ signals' = <<Dispatch("onUpdateConnection", <<>>)>>
  /\ UNCHANGED <<channels, dms, isRead, mentions, readStateSeen>>
  /\ UNCHANGED <<directoryVars, subscriberVars, chatBoxVars>>

\* disconnect, reload, getAllChannels, join and leave of the base class, lines
\* 147-165: an async function whose only statement throws, so the promise it
\* returns is rejected with that Error
Lifecycle(op) ==
  /\ call' = [op |-> op]
  /\ ret' = [threw |-> TRUE, error |-> NotImplemented]
  /\ status' = status
  /\ signals' = <<>>
  /\ UNCHANGED <<channels, dms, isRead, mentions, readStateSeen>>
  /\ UNCHANGED <<directoryVars, subscriberVars, chatBoxVars>>

(* --------------------- channels and DMs of the backend ------------------ *)
\* The channel and DM objects, and the backend code that puts them into
\* Account.channels and Account.dms and changes their fields, are not part of
\* the Account class; they act on the account as follows.
ReadEntities    == [isRead : BOOLEAN, isMuted : BOOLEAN, mentions : {0}]
MentionEntities == [isRead : {TRUE}, isMuted : {FALSE}, mentions : 0..MaxMentions]

BackendEvent ==
  /\ call' = [op |-> "backend"]
  /\ ret' = [threw |-> FALSE]
  /\ signals' = <<>>
  /\ UNCHANGED <<isRead, mentions, readStateSeen, directoryVars, restVars>>

AddChannel(c) ==
  /\ Len(channels) < MaxChannels
  /\ channels' = Append(channels, c)
  /\ UNCHANGED dms
  /\ BackendEvent

AddDM(c) ==
  /\ Len(dms) < MaxDms
  /\ dms' = Append(dms, c)
  /\ UNCHANGED channels
  /\ BackendEvent

ChangeChannel(i, c) ==
  /\ i \in 1..Len(channels)
  /\ channels[i] # c
  /\ channels' = [channels EXCEPT ![i] = c]
  /\ UNCHANGED dms
  /\ BackendEvent

ChangeDM(i, c) ==
  /\ i \in 1..Len(dms)
  /\ dms[i] # c
  /\ dms' = [dms EXCEPT ![i] = c]
  /\ UNCHANGED channels
  /\ BackendEvent

RemoveChannel(i) ==
  /\ i \in 1..Len(channels)
  /\ channels' = Splice(channels, i - 1)
  /\ UNCHANGED dms
  /\ BackendEvent

RemoveDM(i) ==
  /\ i \in 1..Len(dms)
  /\ dms' = Splice(dms, i - 1)
  /\ UNCHANGED channels
  /\ BackendEvent

BackendEvents(Kinds) ==
  \/ \E c \in Kinds : AddChannel(c)
  \/ \E c \in Kinds : AddDM(c)
  \/ \E i \in 1..MaxChannels, c \in Kinds : ChangeChannel(i, c)
  \/ \E i \in 1..MaxDms, c \in Kinds : ChangeDM(i, c)
  \/ \E i \in 1..MaxChannels : RemoveChannel(i)
  \/ \E i \in 1..MaxDms : RemoveDM(i)

\* channels and DMs as the lookups see them: a DM carries the id of its user,
\* a regular channel may carry a userId field of its own
LookupChannels ==
  { [type |-> "channel", id |-> 1, userId |-> Null],
    [type |-> "channel", id |-> 1, userId |-> 1],
    [type |-> "channel", id |-> 2, userId |-> 1],
    [type |-> "channel", id |-> 2, userId |-> 2] }
LookupDMs ==
  { [type |-> "dm", id |-> 1, userId |-> 2],
    [type |-> "dm", id |-> 2, userId |-> 1],
    [type |-> "dm", id |-> 3, userId |-> 1],
    [type |-> "dm", id |-> 3, userId |-> 2] }
LookupIds == 1..3

(* ------------------------------ lookups -------------------------------- *)
\* Array.prototype.find(c => c.userId === id): the first match in a one-element
\* sequence, the empty sequence for undefined
RECURSIVE FindByUserId(_, _, _)
FindByUserId(list, id, i) ==
  IF i > Len(list) THEN <<>>
  ELSE IF list[i].userId = id THEN <<list[i]>>
  ELSE FindByUserId(list, id, i + 1)

\* the lookup falling back from channels to dms, as findChannelById does
FindChannelByUserIdInAll(id) ==
  IF FindByUserId(channels, id, 1) # <<>>
    THEN FindByUserId(channels, id, 1)
    ELSE FindByUserId(dms, id, 1)

\* findChannelByUserId(id), line 59
FindChannelByUserIdResult(id) == FindByUserId(dms, id, 1)

FindChannelByUserId(id) ==
  /\ call' = [op |-> "findChannelByUserId", id |-> id]
  /\ ret' = [threw |-> FALSE, value |-> FindChannelByUserIdResult(id)]
  /\ UNCHANGED <<aggregateVars, directoryVars, restVars>>

(* ------------------- properties of the user directory ------------------ *)
\* number of positions of bucket `letter` that hold `id` (0 without such a bucket)
Occurrences(map, letter, id) ==
  IF letter \in DOMAIN map
    THEN Cardinality({i \in 1..Len(map[letter]) : map[letter][i] = id})
    ELSE 0

RECURSIVE SumOccurrences(_, _, _)
SumOccurrences(map, keys, id) ==
  IF keys = {} THEN 0
  ELSE LET k == CHOOSE k \in keys : TRUE
       IN Occurrences(map, k, id) + SumOccurrences(map, keys \ {k}, id)

\* number of positions of the whole index that hold `id`
TotalOccurrences(map, id) == SumOccurrences(map, DOMAIN map, id)

\* I1 for one id: once in the index, in the bucket of its current name
IndexedOnce(us, map, id) ==
  /\ TotalOccurrences(map, id) = 1
  /\ Occurrences(map, CharToLowerCase(us[id].name[1]), id) = 1

\* the entries of a bucket that belong to users other than `id`, in order
OthersIn(map, letter, id) ==
  IF letter \in DOMAIN map
    THEN SelectSeq(map[letter], LAMBDA x : x # id)
    ELSE <<>>

\* C1: in every reachable state every id of `users` is held exactly once by
\* the index, in the bucket keyed by the lowercase first character of its
\* current name.
C1_IndexConsistency ==
  \A id \in DOMAIN users : IndexedOnce(users, userNamesMap, id)

\* C7: a saveUser that renames an id which the index held exactly once, in
\* the bucket of its old name, leaves the id out of the old bucket when the
\* lowercase first characters differ, exactly once in the bucket of the new
\* name and nowhere else, and keeps the entries of all other users, bucket by
\* bucket and in order.
C7_RenameStep ==
  [][ \A id \in DOMAIN users :
        ( /\ call'.op = "saveUser"
          /\ ~ret'.threw
          /\ call'.user.id = id
          /\ users[id].name # call'.user.name
          /\ IndexedOnce(users, userNamesMap, id) )
        => LET oldLetter == CharToLowerCase(users[id].name[1])
               newLetter == CharToLowerCase(call'.user.name[1])
           IN /\ users'[id].name = call'.user.name
              /\ (oldLetter # newLetter => Occurrences(userNamesMap', oldLetter, id) = 0)
              /\ Occurrences(userNamesMap', newLetter, id) = 1
              /\ TotalOccurrences(userNamesMap', id) = 1
              /\ \A letter \in DOMAIN userNamesMap' :
                   OthersIn(userNamesMap', letter, id) = OthersIn(userNamesMap, letter, id)
              /\ \A other \in DOMAIN users \ {id} : users'[other] = users[other]
    ]_vars

\* witness of C7: Bob (id 4) has been renamed to Robert next to other users:
\* bucket "b" is left without id 4, bucket "r" holds it once
C7_Witness ==
  /\ call = [op |-> "saveUser", user |-> [id |-> 4, name |-> Robert]]
  /\ "b" \in Buckets
  /\ Occurrences(userNamesMap, "b", 4) = 0
  /\ Occurrences(userNamesMap, "r", 4) = 1
  /\ Occurrences(userNamesMap, "a", 1) = 1

\* the directory after saveUser of Alice, Alex, Alexander, Bob in that order
P5Directory ==
  /\ users = (1 :> [id |-> 1, name |-> Alice] @@ 2 :> [id |-> 2, name |-> Alex]
              @@ 3 :> [id |-> 3, name |-> Alexander] @@ 4 :> [id |-> 4, name |-> Bob])
  /\ userNamesMap = ("a" :> <<1, 2, 3>> @@ "b" :> <<4>>)

SearchedFor(name) ==
  /\ call = [op |-> "findUsersByName", name |-> name]
  /\ ~ret.threw

\* C9 as stated: in that directory "ale" finds Alice, Alex, Alexander with no
\* exact index, and "alex" finds the same three users with exactIndex on Alex.
C9_AsStated ==
  P5Directory =>
    /\ SearchedFor(<<"a","l","e">>) =>
         ret.found = [users |-> <<users[1], users[2], users[3]>>, exactIndex |-> Null]
    /\ SearchedFor(<<"a","l","e","x">>) =>
         ret.found = [users |-> <<users[1], users[2], users[3]>>, exactIndex |-> 1]

\* C9 amended: in that directory "ale" finds Alex and Alexander, in directory
\* order and with no exact index (Alice does not start with "ale"), and
\* "alex" finds the same two users with exactIndex 0, the position of Alex.
C9_PrefixSearch ==
  P5Directory =>
    /\ SearchedFor(<<"a","l","e">>) =>
         ret.found = [users |-> <<users[2], users[3]>>, exactIndex |-> Null]
    /\ SearchedFor(<<"a","l","e","x">>) =>
         /\ ret.found = [users |-> <<users[2], users[3]>>, exactIndex |-> 0]
         /\ ret.found.users[ret.found.exactIndex + 1].name = Alex

\* witness of C9: "alex" has been searched in that directory
C9_Witness == P5Directory /\ SearchedFor(<<"a","l","e","x">>)

\* the ids of the bucket keyed by the lowercase first character of `name`
\* whose user's lowercased name equals or starts with the lowercased query
MatchingEntries(name) ==
  IF name = Empty THEN <<>>
  ELSE LET letter == CharToLowerCase(name[1])
       IN IF letter \notin Buckets THEN <<>>
          ELSE SelectSeq(userNamesMap[letter],
                         LAMBDA id : \/ ToLowerCase(users[id].name) = ToLowerCase(name)
                                     \/ StartsWith(ToLowerCase(users[id].name),
                                                   ToLowerCase(name)))

Min(a, b) == IF a <= b THEN a ELSE b

\* C10: findUsersByName(q) returns the first min(5, k) of the k matching
\* entries of q's bucket, in bucket order, never more than 5 users, and for
\* the empty query or a first character without a bucket an empty sequence
\* with no exact index.
C10_SearchResult ==
  \A q \in Queries :
    SearchedFor(q) =>
      LET matching == MatchingEntries(q)
          n == Min(5, Len(matching))
      IN /\ ret.found.users = [i \in 1..n |-> users[matching[i]]]
         /\ Len(ret.found.users) <= 5
         /\ (q = Empty \/ CharToLowerCase(q[1]) \notin Buckets)
              => ret.found = [users |-> <<>>, exactIndex |-> Null]

\* witness of C10: a search whose bucket holds six matching entries returned five
C10_Witness ==
  /\ call.op = "findUsersByName"
  /\ Len(MatchingEntries(call.name)) = 6
  /\ Len(ret.found.users) = 5

\* C15: saveUser called with a user whose name is the empty string ends in an
\* error, and users and every bucket of the name index are what they were
\* before the call: no old entry removed, no bucket created.
C15_EmptyNameRejected ==
  [][(call'.op = "saveUser" /\ call'.user.name = Empty)
       => /\ ret'.threw
          /\ users' = users
          /\ userNamesMap' = userNamesMap
          /\ DOMAIN userNamesMap' = DOMAIN userNamesMap]_vars

\* a user that is stored and indexed has just been saved with the empty name
C15_Witness ==
  /\ call.op = "saveUser"
  /\ call.user.name = Empty
  /\ ret.threw
  /\ call.user.id \in DOMAIN users
  /\ users[call.user.id].name = Robert
  /\ \E letter \in DOMAIN userNamesMap :
        IndexOf(userNamesMap[letter], call.user.id) > -1

\* the users the directory holds under the name typed, case-insensitively
ExactMatches(name) ==
  {id \in DOMAIN users : ToLowerCase(users[id].name) = ToLowerCase(name)}

\* the name the last onKeyUp call completed
NameTyped == MentionName(SubSeq(call.text, 1, call.pos))

\* C11: whenever onKeyUp looks up a name and the directory holds a user whose
\* name equals it case-insensitively, onKeyUp completes with that user: it
\* is the user inserted, or the first entry of the menu's ranked list.
C11_ExactMatchFirst ==
  (/\ call.op = "onKeyUp"
   /\ call.key = "Tab" /\ call.pos = call.posB
   /\ ~ret.threw
   /\ NameTyped # <<>>
   /\ ExactMatches(NameTyped) # {})
    => \/ ret.inserted \in ExactMatches(NameTyped)
       \/ /\ ret.menu # <<>>
          /\ ret.menu[1].id \in ExactMatches(NameTyped)

(* ------------------------ properties of lookups ------------------------ *)
\* positions of the DMs of user `id` in dms
DMsOfUser(id) == {i \in 1..Len(dms) : dms[i].userId = id}

\* C12: findChannelByUserId(id) returns the first DM of dms whose userId is id,
\* or nothing when dms holds no such DM; it never returns an element of
\* channels, whatever userId or id the channels carry.
C12_DMsOnly ==
  call.op = "findChannelByUserId"
    => /\ \A i \in 1..Len(ret.value) : ret.value[i].type = "dm"
       /\ IF DMsOfUser(call.id) = {}
            THEN ret.value = <<>>
            ELSE /\ \E first \in DMsOfUser(call.id) :
                      /\ \A i \in DMsOfUser(call.id) : first <= i
                      /\ ret.value = <<dms[first]>>
                 /\ \A i \in 1..Len(channels) : ret.value[1] # channels[i]

\* a lookup that found the first of two DMs of the user although a channel
\* with the same userId and id comes before them
C12_Witness ==
  /\ call.op = "findChannelByUserId"
  /\ Len(dms) = 2
  /\ dms[1] # dms[2]
  /\ DMsOfUser(call.id) = {1, 2}
  /\ \E i \in 1..Len(channels) :
        channels[i].userId = call.id /\ channels[i].id = call.id
  /\ ret.value = <<dms[1]>>

(* -------------------- properties of the subscribers -------------------- *)
ReadStateCalls == {"setReadState", "updateReadState"}

\* the values assigned to isRead during the last call, in order
RECURSIVE CommittedIn(_)
CommittedIn(steps) ==
  IF steps = <<>> THEN <<>>
  ELSE IF Head(steps).kind = "commit"
    THEN <<Head(steps).value>> \o CommittedIn(Tail(steps))
  ELSE CommittedIn(Tail(steps))

\* the payloads handler k was called with during the last call, in order
RECURSIVE SeenIn(_, _)
SeenIn(steps, k) ==
  IF steps = <<>> THEN <<>>
  ELSE IF Head(steps).kind = "handler" /\ Head(steps).subscriber = k
    THEN <<Head(steps).value>> \o SeenIn(Tail(steps), k)
  ELSE SeenIn(Tail(steps), k)

\* C16: in setReadState the assignment to isRead comes first, the dispatch of
\* the account's signal with the new value follows it at once, and the
\* registry's dispatch comes after that; so every handler of the account's
\* signal, when called, finds isRead equal to its payload, and no registry
\* dispatch comes before the account's dispatch of the same change.
C16_CommitThenDispatch ==
  call.op \in ReadStateCalls
    => /\ \A i \in 1..Len(trace) :
            trace[i].kind = "handler" => trace[i].isRead = trace[i].value
       /\ \A i \in 1..Len(trace) :
            (trace[i].kind = "commit" /\ subscribers # <<>>)
              => /\ i < Len(trace)
                 /\ trace[i + 1] = Step("handler", 1, trace[i].value,
                                        trace[i].value)
       /\ \A i \in 1..Len(trace) :
            trace[i].kind = "registry"
              => Len(CommittedIn(SubSeq(trace, 1, i)))
                   > Len(SelectSeq(SubSeq(trace, 1, i - 1),
                                   LAMBDA e : e.kind = "registry"))

\* C17: every handler of onUpdateReadState is called with exactly the values
\* assigned to isRead, in the order of the assignments, also when a handler
\* calls setReadState while the dispatch is in progress.
C17_PayloadsInCommitOrder ==
  call.op \in ReadStateCalls
    => \A k \in 1..Len(subscribers) : SeenIn(trace, k) = CommittedIn(trace)

\* C18: when a handler throws during the dispatch of setReadState, the call
\* throws and isRead is the value the call was to set, not the value before
\* the call.
C18_CommitRetained ==
  (call.op \in ReadStateCalls /\ trace # <<>>
     /\ \E i \in 1..Len(trace) : trace[i].kind = "throw")
    => /\ ret.threw
       /\ isRead = call.read
       /\ isRead # call.before

\* a failure undoes no assignment: after a call that threw, isRead is the
\* value assigned last, which is the value the call was to set unless a
\* handler has called setReadState in between
FailureKeepsLastCommit ==
  (call.op \in ReadStateCalls /\ ret.threw)
    => /\ trace[Len(trace)].kind = "throw"
       /\ isRead = CommittedIn(trace)[Len(CommittedIn(trace))]
       /\ (Len(CommittedIn(trace)) = 1
             => isRead = call.read /\ isRead # call.before)

(* ---------------------- properties of the chat box --------------------- *)
\* C19: when a loadChannel call resumes after the chat box has turned to
\* another message list or has been unloaded, the resumption renders no page
\* and leaves messageList, subscription, pendingMessages and messagesLoaded
\* as they were; a channel that is ready stays messagesLoaded.
C19_StaleLoadGuard ==
  [][(call'.op = "resumeLoad" /\ call'.list # messageList)
       => UNCHANGED <<browser, messageList, subscription, pendingMessages,
                      messagesLoaded, rendered>>]_vars

\* the page of the message list shown has called ready() and no later load
\* of that list is under way
ShownAndReady ==
  /\ messageList # NoList
  /\ browser = [page |-> messageList, readyDue |-> FALSE]
  /\ \A i \in 1..Len(loads) : loads[i] # messageList

\* C20: a message delivered while the browser does not show the page of the
\* message list is buffered and not rendered; ready() renders the buffered
\* messages once each, in arrival order, and empties the buffer; a message
\* delivered after ready() is rendered at once and not buffered; no message
\* is rendered into the page of another message list.
C20_PendingQueue ==
  [][/\ (call'.op = "newMessage" /\ browser.page # messageList)
          => /\ pendingMessages' = Append(pendingMessages, call'.message)
             /\ rendered' = rendered
     /\ (call'.op = "newMessage" /\ ShownAndReady)
          => /\ rendered' = rendered \o AddedToPage(<<call'.message>>)
             /\ pendingMessages' = pendingMessages
     /\ call'.op = "ready"
          => /\ rendered' = rendered \o AddedToPage(pendingMessages)
             /\ pendingMessages' = <<>>
     /\ \A i \in 1..Len(rendered') :
          rendered'[i].message.list = rendered'[i].page]_vars

(* ----------------------- properties of the replies --------------------- *)
\* a text of white space only, the empty text included
Blank(text) == \A i \in 1..Len(text) : text[i] \in WhiteSpace

\* handleEnter sends the text of the entry, or sends nothing
EnterStep ==
  call'.op = "handleEnter"
    => IF call'.isShiftPressed \/ isSendingReply \/ messageList = NoList
            \/ Blank(replyText)
         THEN UNCHANGED <<sends, isSendingReply, replyEnabled>>
         ELSE /\ sends' = <<[list |-> messageList, message |-> replyText]>>
              /\ isSendingReply'

\* a settled send, fulfilled or rejected, resets the flag and enables the entry
SettleStep ==
  call'.op \in {"sendResolved", "sendRejected"}
    => /\ sends = <<[list |-> sends[1].list, message |-> call'.message]>>
       /\ sends' = <<>>
       /\ ~isSendingReply'
       /\ replyEnabled'

\* C21: at most one sendMessage is in flight at any time, and isSendingReply
\* says whether one is; handleEnter sends nothing while isSendingReply is
\* true, with Shift pressed, with a blank text or without a message list, and
\* sends the text otherwise; every send that was started is settled at some
\* time, fulfilled or rejected, and that resets isSendingReply and enables
\* the reply entry, so that Enter can send again.
C21_ReplySending ==
  /\ [](Len(sends) <= 1 /\ (isSendingReply <=> sends # <<>>))
  /\ [][EnterStep /\ SettleStep]_vars
  /\ (isSendingReply ~> (~isSendingReply /\ replyEnabled /\ sends = <<>>))

\* a send has failed, the flag is reset, the entry is enabled and still holds
\* a text that the next Enter sends
C21_Witness ==
  /\ call.op = "sendRejected"
  /\ ~isSendingReply
  /\ replyEnabled
  /\ sends = <<>>
  /\ messageList # NoList
  /\ ~Blank(replyText)

(* ------------------ properties of the connection lifecycle -------------- *)
\* the signals dispatched by the last call
Dispatched == {signals[i].signal : i \in 1..Len(signals)}

\* C13: disconnect, reload, getAllChannels, join and leave of the base
\* account always fail with the not-implemented error, leave status,
\* channels, dms, users, the name index, isRead and mentions unchanged, and
\* dispatch no signal.
C13_NotImplemented ==
  [][call'.op \in LifecycleOps
       => /\ ret'.threw
          /\ ret'.error = NotImplemented
          /\ UNCHANGED <<status, channels, dms, users, userNamesMap, isRead,
                         mentions>>
          /\ signals' = <<>>]_vars

\* reload has failed on an account that holds channels, a user and an unread
\* state
C13_Witness ==
  /\ call.op = "reload"
  /\ ret.threw
  /\ Len(channels) > 0
  /\ DOMAIN users # {}
  /\ ~isRead
  /\ status = "connecting"

\* C14: when a lifecycle operation fails, status becomes "error" and
\* onUpdateConnection is dispatched; and every change of status comes with a
\* dispatch of onUpdateConnection.
C14_FailureSetsError ==
  [][/\ (call'.op \in LifecycleOps /\ ret'.threw)
          => (status' = "error" /\ "onUpdateConnection" \in Dispatched')
     /\ (status' # status) => "onUpdateConnection" \in Dispatched']_vars

(* ---------------- properties of read state and mentions ---------------- *)
\* the entities of channels and dms
Entities ==
  {channels[i] : i \in 1..Len(channels)} \cup {dms[i] : i \in 1..Len(dms)}

AllReadOrMuted == \A c \in Entities : c.isRead \/ c.isMuted

\* sum of `mentions` over a sequence of entities, by position
RECURSIVE SumTo(_, _)
SumTo(entities, n) ==
  IF n = 0 THEN 0 ELSE entities[n].mentions + SumTo(entities, n - 1)

TotalMentions(chs, ds) == SumTo(chs, Len(chs)) + SumTo(ds, Len(ds))

\* the largest sum the bounds allow
MaxTotal == (MaxChannels + MaxDms) * MaxMentions

\* the payloads dispatched on the account's onUpdateReadState by one call
ReadStateDispatches(sigs) ==
  LET own == SelectSeq(sigs, LAMBDA d : d.signal = "onUpdateReadState")
  IN [i \in 1..Len(own) |-> own[i].args[1]]

\* C2: at construction and after every updateReadState(), isRead is true
\* exactly when every entity of channels and dms is read or muted (true when
\* both are empty).
C2_ReadStateInSync ==
  call.op \in {"constructor", "updateReadState"} =>
    (isRead <=> \A c \in Entities : c.isRead \/ c.isMuted)

\* witness of C2: updateReadState() has left isRead true over an unread but
\* muted channel and a DM
C2_Witness ==
  /\ call.op = "updateReadState"
  /\ isRead
  /\ \E i \in 1..Len(channels) : ~channels[i].isRead /\ channels[i].isMuted
  /\ Len(dms) > 0

\* C3: setReadState(read) dispatches onUpdateReadState exactly when `read`
\* differs from the current isRead, then once and with `read`; a second
\* setReadState with the same argument right after the first dispatches
\* nothing; and no dispatch of onUpdateReadState, by any call, carries the
\* payload of the dispatch before it.
C3_DedupDispatch ==
  [][ LET sent == ReadStateDispatches(signals')
      IN /\ call'.op = "setReadState" =>
              /\ (sent # <<>>) <=> (call'.read # isRead)
              /\ sent # <<>> => sent = <<call'.read>>
              /\ isRead' = call'.read
              /\ call = call' => sent = <<>>
         /\ Len(sent) <= 1
         /\ sent # <<>> => sent # readStateSeen
    ]_vars

\* witness of C3: setReadState(true) has dispatched true after an earlier
\* dispatch of false
C3_Witness ==
  /\ call = [op |-> "setReadState", read |-> TRUE]
  /\ ReadStateDispatches(signals) = <<TRUE>>
  /\ readStateSeen = <<TRUE>>
  /\ Entities # {}

\* C4: after every updateMentions() the stored count is the sum of `mentions`
\* over channels and dms; so a call that finds the children d away from the
\* stored count changes the stored count by exactly d.
C4_MentionsInSync ==
  [][ call'.op = "updateMentions" =>
        /\ mentions' = TotalMentions(channels', dms')
        /\ \A d \in (0 - MaxTotal)..MaxTotal :
             TotalMentions(channels, dms) = mentions + d => mentions' = mentions + d
    ]_vars

\* witness of C4: updateMentions() has stored the sum of two mentioned entities
C4_Witness ==
  /\ call.op = "updateMentions"
  /\ mentions >= 2
  /\ Cardinality({i \in 1..Len(channels) : channels[i].mentions > 0}) +
     Cardinality({i \in 1..Len(dms) : dms[i].mentions > 0}) >= 2

\* C5: updateMentions() dispatches onUpdateMentions and then calls the
\* registry's updateMentions exactly when the recomputed sum differs from the
\* stored count; otherwise it dispatches nothing, calls nothing and changes
\* no field of the account.
C5_MentionDispatch ==
  [][ call'.op = "updateMentions" =>
        IF TotalMentions(channels, dms) # mentions
          THEN /\ signals' = << Dispatch("onUpdateMentions", <<>>),
                                Dispatch("accountManager.updateMentions", <<>>) >>
               /\ mentions' # mentions
          ELSE /\ signals' = <<>>
               /\ UNCHANGED <<channels, dms, isRead, mentions, readStateSeen,
                              users, userNamesMap>>
    ]_vars

\* witness of C5: updateMentions() over two children and a stored count above
\* zero has dispatched nothing
C5_Witness ==
  /\ call.op = "updateMentions"
  /\ signals = <<>>
  /\ mentions > 0
  /\ Len(channels) + Len(dms) >= 2

\* C6 as stated: updateReadState() over channels and dms that are all read or
\* muted sets isRead to true and dispatches onUpdateReadState(true) once, and
\* not again when it is called twice in a row.
C6_AsStated ==
  [][ (call'.op = "updateReadState" /\ AllReadOrMuted) =>
        /\ isRead'
        /\ ReadStateDispatches(signals') =
             IF call.op = "updateReadState" THEN <<>> ELSE <<TRUE>>
    ]_vars

\* C6 amended: updateReadState() over channels and dms that are all read or
\* muted sets isRead to true and dispatches onUpdateReadState(true) once if
\* isRead was false before the call and not at all if isRead was already
\* true, as it is on a new account and after a first such call.
C6_ReadScenario ==
  [][ (call'.op = "updateReadState" /\ AllReadOrMuted) =>
        /\ isRead'
        /\ ReadStateDispatches(signals') = IF isRead THEN <<>> ELSE <<TRUE>>
        /\ call.op = "updateReadState" => ReadStateDispatches(signals') = <<>>
    ]_vars

\* witness of C6: over channels read and unread-but-muted and a read DM,
\* updateReadState() has just dispatched onUpdateReadState(true)
C6_Witness ==
  /\ call.op = "updateReadState"
  /\ Len(channels) = 2
  /\ channels[1].isRead
  /\ ~channels[2].isRead /\ channels[2].isMuted
  /\ Len(dms) = 1 /\ dms[1].isRead
  /\ isRead
  /\ ReadStateDispatches(signals) = <<TRUE>>

\* C8: computeReadState() returns true for empty channels and dms, returns
\* false exactly when some entity of channels or dms is neither read nor
\* muted, and changes no field of the account or of an entity.
C8_ReadFold ==
  [][ call'.op = "computeReadState" =>
        /\ ret'.value = ~(\E c \in Entities : ~c.isRead /\ ~c.isMuted)
        /\ (channels = <<>> /\ dms = <<>>) => ret'.value = TRUE
        /\ UNCHANGED <<channels, dms, isRead, mentions, readStateSeen,
                       users, userNamesMap>>
    ]_vars

\* witness of C8: computeReadState() has returned false over one entity that
\* is neither read nor muted next to one that is muted
C8_Witness ==
  /\ call.op = "computeReadState"
  /\ ret.value = FALSE
  /\ \E c \in Entities : ~c.isRead /\ c.isMuted
  /\ Cardinality({c \in Entities : ~c.isRead /\ ~c.isMuted}) = 1

(* --------------------------- specification ----------------------------- *)
InitDirectory == Constructor

NextDirectory ==
  \/ \E newUser \in NewUsers : SaveUser(newUser)
  \/ \E newUser \in NewUsers : SaveUserThrows(newUser)
  \/ \E name \in Queries : FindUsersByName(name)

SpecDirectory == InitDirectory /\ [][NextDirectory]_vars

\* mention completion over a directory in which every user is saved once
InitCompletion == Constructor

\* the users saved next: the directory is filled in ascending or in
\* descending order of the ids
UsersToSave ==
  LET saved == Cardinality(DOMAIN users)
      last == Cardinality(CompletionUsers)
  IN {user \in CompletionUsers :
        \/ DOMAIN users = 1..saved /\ user.id = saved + 1
        \/ DOMAIN users = (last - saved + 1)..last /\ user.id = last - saved}

NextCompletion ==
  \/ \E newUser \in UsersToSave : SaveNewUser(newUser)
  \/ \E messagesReady \in BOOLEAN : LoadChannel("A", messagesReady)
  \/ \E i \in 1..MaxLoads : ResumeLoad(i)
  \/ \E isActive \in BOOLEAN : Ready(isActive)
  \/ Unload
  \/ \E text \in MentionTexts : TypeText(text)
  \/ \E key \in Keys, pos \in {0, Len(replyText)}, posB \in {0, Len(replyText)} :
       OnKeyUp(key, pos, posB)
  \/ \E i \in 1..MENTION_SEARCH_LIMIT : MenuClick(i)
  \/ MenuDismiss

SpecCompletion == InitCompletion /\ [][NextCompletion]_vars

\* lookups over channels and DMs the backend adds and removes
InitLookup == Constructor

NextLookup ==
  \/ \E id \in LookupIds : FindChannelByUserId(id)
  \/ \E c \in LookupChannels : AddChannel(c)
  \/ \E c \in LookupDMs : AddDM(c)
  \/ \E i \in 1..MaxChannels : RemoveChannel(i)
  \/ \E i \in 1..MaxDms : RemoveDM(i)

SpecLookup == InitLookup /\ [][NextLookup]_vars

\* lifecycle operations on an account that holds channels, users and state
LifecycleEntities ==
  { [isRead |-> FALSE, isMuted |-> FALSE, mentions |-> 1],
    [isRead |-> TRUE, isMuted |-> FALSE, mentions |-> 0] }

InitLifecycle == Constructor

NextLifecycle ==
  \/ \E op \in LifecycleOps : Lifecycle(op)
  \/ \E read \in BOOLEAN : SetReadState(read)
  \/ UpdateMentions
  \/ \E c \in LifecycleEntities : AddChannel(c)
  \/ \E c \in LifecycleEntities : AddDM(c)
  \/ \E newUser \in {[id |-> 1, name |-> Alice]} : SaveNewUser(newUser)

SpecLifecycle == InitLifecycle /\ [][NextLifecycle]_vars

\* read state of an account whose subscribers return or call back
InitCooperative == Constructor

NextCooperative ==
  \/ \E handler \in CooperativeHandlers : Subscribe(handler)
  \/ \E read \in BOOLEAN : SetReadStateWithSubscribers(read)
  \/ UpdateReadStateWithSubscribers
  \/ \E c \in LifecycleEntities : AddChannel(c)
  \/ \E i \in 1..MaxChannels : RemoveChannel(i)

SpecCooperative == InitCooperative /\ [][NextCooperative]_vars

\* read state of an account whose subscribers may also throw
InitSubscribers == Constructor

NextSubscribers ==
  \/ \E handler \in Handlers : Subscribe(handler)
  \/ \E read \in BOOLEAN : SetReadStateWithSubscribers(read)
  \/ UpdateReadStateWithSubscribers
  \/ \E c \in LifecycleEntities : AddChannel(c)
  \/ \E i \in 1..MaxChannels : RemoveChannel(i)

SpecSubscribers == InitSubscribers /\ [][NextSubscribers]_vars

\* a chat box asked to show message lists that deliver messages
InitChatBox == Constructor

NextChatBox ==
  \/ \E list \in MessageLists, messagesReady \in BOOLEAN :
       LoadChannel(list, messagesReady)
  \/ \E i \in 1..MaxLoads : ResumeLoad(i)
  \/ Unload
  \/ SetLoading
  \/ \E isActive \in BOOLEAN : Ready(isActive)
  \/ \E list \in MessageLists : NewMessage(list)
  \/ NotifyDisplaying
  \/ NotifyNotDisplaying

SpecChatBox == InitChatBox /\ [][NextChatBox]_vars

\* replies typed and sent while the chat box loads and unloads message
\* lists; every promise of sendMessage is settled at some time
InitReply == Constructor

NextReply ==
  \/ \E list \in MessageLists, messagesReady \in BOOLEAN :
       LoadChannel(list, messagesReady)
  \/ \E i \in 1..MaxLoads : ResumeLoad(i)
  \/ Unload
  \/ SetLoading
  \/ \E isActive \in BOOLEAN : Ready(isActive)
  \/ \E text \in ReplyTexts : TypeText(text)
  \/ \E isShiftPressed \in BOOLEAN : HandleEnter(isShiftPressed)
  \/ \E i \in 1..MaxSends : SendResolved(i)
  \/ \E i \in 1..MaxSends : SendRejected(i)

SpecReply == InitReply /\ [][NextReply]_vars /\ WF_vars(SendSettles)

InitReadState == Constructor

NextReadState ==
  \/ \E read \in BOOLEAN : SetReadState(read)
  \/ UpdateReadState
  \/ ComputeReadStateCall
  \/ BackendEvents(ReadEntities)

SpecReadState == InitReadState /\ [][NextReadState]_vars

InitMentions == Constructor

NextMentions ==
  \/ UpdateMentions
  \/ BackendEvents(MentionEntities)

SpecMentions == InitMentions /\ [][NextMentions]_vars

=============================================================================
